---------------------------- MODULE Spec2Model ----------------------------
(***************************************************************************)
(* The process session manager of manusmcp (src/src/manusmcp/tools.py,     *)
(* shell_exec .. shell_kill_process; src/pytools/src/manusmcp/tools.py     *)
(* holds the same five handlers), together with the operating-system       *)
(* processes it launches.                                                  *)
(*                                                                         *)
(* A handler is a plain synchronous function.  It is modelled as a caller  *)
(* that moves through the handler's blocking points (Popen.wait, readline, *)
(* read); between two such points the handler's statements form one step.  *)
(* The launched processes run on their own: they write lines, close their  *)
(* output, exit, and react to signals between any two handler steps.       *)
(*                                                                         *)
(* The second part is the plan / replan controller (src/src/__init__.py)   *)
(* with the supervisor's sub-workflow (src/src/supervisor.py) and the Run  *)
(* State they share (src/src/state.py): one run of the graph, a node at a  *)
(* time.                                                                   *)
(*                                                                         *)
(* The third part is the workers the sub-workflow runs as graphs of their  *)
(* own: the filesystem worker (src/src/workers/fs.py) and the              *)
(* knowledge-base worker (src/src/workers/kb.py).                          *)
(***************************************************************************)
EXTENDS Integers, Sequences, FiniteSets, TLC

(* ----------------------------- bounds --------------------------------- *)
\* Number of processes subprocess.Popen may launch in one behaviour.
MaxProcs == 2
\* Number of lines the processes of one state may have written, all together.
MaxLines == 2

\* Session ids the callers choose from.
Ids == {"s1", "s2"}
\* The threads a handler may run on, and the one the server runs them on: the
\* handlers are synchronous tool functions, called on the event loop.
Callers == {"c1", "c2"}

\* A server that would call the handlers from every thread at once.
ThreadedServer == Callers

ServerThreads == {"c1"}

\* Exit statuses a process may choose on its own.
ExitCodes == {0, 1}
\* Popen.returncode of a process ended by SIGTERM (terminate) / SIGKILL (kill).
TermCode == -15
KillCode == -9

VARIABLES
    sessions,   \* the module-level dict: id -> ShellSession(output, process)
    procs,      \* the processes launched so far, by Popen, in launch order
    pc,         \* each caller's position inside the handler it runs
    call,       \* each caller's parameters and locals
    ret,        \* the value returned by the step just taken, if it was a return
    state,      \* the Run State of the run: the graph's channels
    node,       \* the node of the graph that runs next
    loop,       \* the supersteps taken by the workflow, its sub-workflow, a worker
    trips       \* history: the worker returns since the plan last changed

\* The session manager's variables and the run's.
manager == <<sessions, procs, pc, call, ret>>
run == <<state, node, loop, trips>>
vars == <<sessions, procs, pc, call, ret, state, node, loop, trips>>

(* --------------------------- ShellSession ------------------------------ *)
\* ShellSession(): output "" and process None (0 stands for None).
ShellSession == [output |-> <<>>, process |-> 0]

Pids == 1..Len(procs)

\* A process writes the lines 1, 2, ..: wrote counts them, rd counts those
\* read from the pipe.  The lines written to the pipe of p and not read yet:
Pending(p) == [k \in 1..(procs[p].wrote - procs[p].rd) |-> procs[p].rd + k]

\* The lines as they arrive in session.output: tagged with their process.
Tagged(p, lines) == [k \in 1..Len(lines) |-> <<p, lines[k]>>]

\* What Popen.poll() tests: the process has not ended.
Alive(p) == procs[p].alive

\* The lines the processes 1..n have written.
RECURSIVE Written(_)
Written(n) == IF n = 0 THEN 0 ELSE procs[n].wrote + Written(n - 1)

(* ------------------------------ results -------------------------------- *)
NoCall == [op |-> "none", id |-> "s1", ok |-> TRUE, timeout |-> FALSE, process |-> 0]
\* A returned text: its kind, the handler and id it answers, and what it
\* carries: a return code, the session's output, the exception's text.
Res(op, id, k) ==
    [kind |-> k, op |-> op, id |-> id, code |-> 0, output |-> <<>>, error |-> ""]
NoResult == Res("none", "s1", "none")
Result(c, k) == Res(call[c].op, call[c].id, k)
\* "Error ...: {str(e)}", the text an except clause returns.
Error(c, e) == [Result(c, "error") EXCEPT !.error = e]
\* No return: the exception e leaves the handler.
Raised(c, e) == [Result(c, "raised") EXCEPT !.error = e]

\* The handler of caller c returns r.
Return(c, r) ==
    /\ pc' = [pc EXCEPT ![c] = "idle"]
    /\ call' = [call EXCEPT ![c] = NoCall]
    /\ ret' = r

\* The handler of caller c moves on to position l.
Goto(c, l) ==
    /\ pc' = [pc EXCEPT ![c] = l]
    /\ ret' = NoResult

(* ------------------------- operating system --------------------------- *)
\* The record of a process just launched by Popen for session id.
NewProcess(id) ==
    [sid |-> id, alive |-> TRUE, code |-> 0, returncode |-> {},
     wrote |-> 0, rd |-> 0, eof |-> FALSE, term |-> FALSE]

\* Popen.poll(): records the exit status of an ended process in returncode.
Poll(P, p) ==
    IF P[p].alive THEN P ELSE [P EXCEPT ![p].returncode = {P[p].code}]

\* Popen.terminate(): polls, and sends SIGTERM when the process still runs
\* (term: a SIGTERM was sent to the running process).
Terminate(P, p) ==
    IF P[p].alive THEN [P EXCEPT ![p].term = TRUE] ELSE Poll(P, p)

\* The process ends with exit status code: its ends of the pipes are closed.
Ended(P, p, code) ==
    [P EXCEPT ![p].alive = FALSE, ![p].code = code, ![p].eof = TRUE,
              ![p].term = FALSE]

\* Popen.kill(): polls, and sends SIGKILL when the process still runs.  SIGKILL
\* cannot be caught: the process ends with it; the status stays uncollected
\* until a poll() or wait().
Kill(P, p) ==
    IF P[p].alive THEN Ended(P, p, KillCode) ELSE Poll(P, p)

\* A running process writes one more line.
ProcWrite(p) ==
    /\ Alive(p) /\ ~procs[p].eof
    /\ Written(Len(procs)) < MaxLines
    /\ procs' = [procs EXCEPT ![p].wrote = @ + 1]
    /\ ret' = NoResult
    /\ UNCHANGED <<sessions, pc, call>>

\* A running process closes its stdout/stderr and goes on running.
ProcCloseStdout(p) ==
    /\ Alive(p) /\ ~procs[p].eof
    /\ procs' = [procs EXCEPT ![p].eof = TRUE]
    /\ ret' = NoResult
    /\ UNCHANGED <<sessions, pc, call>>

\* A running process exits with a status of its choice.
ProcExit(p, code) ==
    /\ Alive(p)
    /\ procs' = Ended(procs, p, code)
    /\ ret' = NoResult
    /\ UNCHANGED <<sessions, pc, call>>

\* A process that was sent SIGTERM and does not handle it ends with it.
ProcTerminated(p) ==
    /\ Alive(p) /\ procs[p].term
    /\ procs' = Ended(procs, p, TermCode)
    /\ ret' = NoResult
    /\ UNCHANGED <<sessions, pc, call>>

(* ------------------------- reading the pipe ---------------------------- *)
\* process.stdout.readline() has a line to return (it blocks otherwise, until
\* the pipe has a line or is at end of file).
HasLine(p) == procs[p].rd < procs[p].wrote
NextLine(p) == procs[p].rd + 1
AtEOF(p) == ~HasLine(p) /\ procs[p].eof

\* session.output += line, for the session object of id.
AppendOutput(S, id, lines) == [S EXCEPT ![id].output = @ \o lines]

\* process.stdout.read() has taken everything up to the end of file.
Consumed(P, p) == [P EXCEPT ![p].rd = P[p].wrote]

\* One readline() of a drain loop: p's next line goes to session.output.
ReadLine(c) ==
    LET p == call[c].process
    IN /\ HasLine(p)
       /\ sessions' = AppendOutput(sessions, call[c].id, Tagged(p, <<NextLine(p)>>))
       /\ procs' = [procs EXCEPT ![p].rd = @ + 1]
       /\ ret' = NoResult
       /\ UNCHANGED <<pc, call>>

\* One readline() of a drain loop raises UnicodeDecodeError: the line holds
\* bytes the text decoder (text=True, strict) rejects.  The line is consumed.
ReadLineRaises(c) ==
    LET p == call[c].process
    IN /\ HasLine(p)
       /\ procs' = [procs EXCEPT ![p].rd = @ + 1]
       /\ UNCHANGED sessions

(* ----------------------------- shell_exec ------------------------------ *)
\* session.process is rebound: when no handler holds the old Popen object it
\* is collected with its returncode, its pipes are closed and what they held
\* is discarded.  The exit status of an ended process can no longer be
\* collected: all that is kept of it is that it has ended.
Dropped(locals, P, old) ==
    IF old # 0 /\ \A d \in Callers : locals[d].process # old
    THEN IF P[old].alive
         THEN [P EXCEPT ![old].returncode = {}, ![old].wrote = 0, ![old].rd = 0,
                        ![old].eof = TRUE]
         ELSE [P EXCEPT ![old] = [NewProcess(P[old].sid) EXCEPT
                                     !.alive = FALSE, !.eof = TRUE]]
    ELSE P

\* shell_exec with the force-kill sent at once, no terminate() and no wait.
ExecBeginKillFirst(c, id, ok) ==
    /\ pc[c] = "idle"
    /\ ~ok \/ Len(procs) < MaxProcs
    /\ LET S == IF id \in DOMAIN sessions THEN sessions
                ELSE sessions @@ (id :> ShellSession)
           old == S[id].process
       IN /\ sessions' = S
          /\ call' = [call EXCEPT ![c] =
                 [op |-> "exec", id |-> id, ok |-> ok, timeout |-> FALSE,
                  process |-> 0]]
          /\ procs' = IF old # 0 THEN Kill(procs, old) ELSE procs
          /\ Goto(c, "exec_launch")

\* Lines 173-188: create the session on first use; when its process still
\* runs, terminate() it and enter wait(timeout=5).
ExecBegin(c, id, ok) ==
    /\ pc[c] = "idle"
    /\ ~ok \/ Len(procs) < MaxProcs
    /\ LET S == IF id \in DOMAIN sessions THEN sessions
                ELSE sessions @@ (id :> ShellSession)
           old == S[id].process
       IN /\ sessions' = S
          /\ call' = [call EXCEPT ![c] =
                 [op |-> "exec", id |-> id, ok |-> ok, timeout |-> FALSE,
                  process |-> 0]]
          /\ IF old # 0 /\ Alive(old)
             THEN /\ procs' = Terminate(procs, old)
                  /\ Goto(c, "exec_grace")
             ELSE /\ procs' = IF old # 0 THEN Poll(procs, old) ELSE procs
                  /\ Goto(c, "exec_launch")

\* Line 186: session.process.wait(timeout=5) returns, the process has ended.
ExecGraceExit(c) ==
    /\ pc[c] = "exec_grace"
    /\ ~Alive(sessions[call[c].id].process)
    /\ procs' = Poll(procs, sessions[call[c].id].process)
    /\ Goto(c, "exec_launch")
    /\ UNCHANGED <<sessions, call>>

\* shell_exec giving up on the old process when the grace period runs out.
ExecGraceTimeoutNoKill(c) ==
    /\ pc[c] = "exec_grace"
    /\ Alive(sessions[call[c].id].process)
    /\ Goto(c, "exec_launch")
    /\ UNCHANGED <<sessions, procs, call>>

\* Lines 187-188: TimeoutExpired, the process still runs: session.process.kill().
ExecGraceTimeout(c) ==
    /\ pc[c] = "exec_grace"
    /\ Alive(sessions[call[c].id].process)
    /\ procs' = Kill(procs, sessions[call[c].id].process)
    /\ Goto(c, "exec_launch")
    /\ UNCHANGED <<sessions, call>>

\* shell_exec with Popen before the try: a failing launch leaves the handler
\* as an exception.
ExecLaunchOutsideTry(c) ==
    /\ pc[c] = "exec_launch"
    /\ LET id == call[c].id
           new == Len(procs) + 1
       IN IF call[c].ok
          THEN /\ procs' = Append(Dropped(call, procs, sessions[id].process),
                                NewProcess(id))
               /\ sessions' = [sessions EXCEPT ![id].output = <<>>, ![id].process = new]
               /\ call' = [call EXCEPT ![c].process = new]
               /\ Goto(c, "exec_read")
          ELSE /\ sessions' = [sessions EXCEPT ![id].output = <<>>]
               /\ UNCHANGED procs
               /\ Return(c, Raised(c, "FileNotFoundError"))

\* shell_exec clearing the output after the launch only.
ExecLaunchClearsLate(c) ==
    /\ pc[c] = "exec_launch"
    /\ LET id == call[c].id
           new == Len(procs) + 1
       IN IF call[c].ok
          THEN /\ procs' = Append(Dropped(call, procs, sessions[id].process),
                                NewProcess(id))
               /\ sessions' = [sessions EXCEPT ![id].output = <<>>, ![id].process = new]
               /\ call' = [call EXCEPT ![c].process = new]
               /\ Goto(c, "exec_read")
          ELSE /\ UNCHANGED <<sessions, procs>>
               /\ Return(c, Error(c, "FileNotFoundError"))

\* Lines 190-206 and 224-225: clear the output, then Popen.  A launch that
\* fails (cwd is no directory) raises inside the try: the handler returns the
\* error text and session.process keeps its value.
ExecLaunch(c) ==
    /\ pc[c] = "exec_launch"
    /\ LET id == call[c].id
           new == Len(procs) + 1
       IN IF call[c].ok
          THEN /\ procs' = Append(Dropped(call, procs, sessions[id].process),
                                NewProcess(id))
               /\ sessions' = [sessions EXCEPT ![id].output = <<>>, ![id].process = new]
               /\ call' = [call EXCEPT ![c].process = new]
               /\ Goto(c, "exec_read")
          ELSE /\ sessions' = [sessions EXCEPT ![id].output = <<>>]
               /\ UNCHANGED procs
               /\ Return(c, Error(c, "FileNotFoundError"))

\* Lines 210-215: the process runs and readline() returns a line.
ExecReadLine(c) ==
    /\ pc[c] = "exec_read"
    /\ Alive(call[c].process)
    /\ ReadLine(c)

\* Lines 211 and 224-225: readline() raises, caught by the handler's except.
ExecReadBad(c) ==
    /\ pc[c] = "exec_read"
    /\ Alive(call[c].process)
    /\ ReadLineRaises(c)
    /\ Return(c, Error(c, "UnicodeDecodeError"))

\* Lines 212-213, 218 and 223: readline() returns "" at end of file while the
\* process runs: break, nothing is left to read, return "started".
ExecReadEOF(c) ==
    /\ pc[c] = "exec_read"
    /\ Alive(call[c].process) /\ AtEOF(call[c].process)
    /\ Return(c, Result(c, "started"))
    /\ UNCHANGED <<sessions, procs>>

\* Lines 210 and 218-223: poll() finds the process ended; read() returns what
\* is left in the pipe.
ExecReadRest(c) ==
    /\ pc[c] = "exec_read"
    /\ LET p == call[c].process
       IN /\ ~Alive(p)
          /\ procs' = Consumed(Poll(procs, p), p)
          /\ sessions' = AppendOutput(sessions, call[c].id, Tagged(p, Pending(p)))
    /\ Return(c, Result(c, "started"))

\* Lines 219 and 224-225: read() raises on bytes the text decoder rejects.
ExecReadRestBad(c) ==
    /\ pc[c] = "exec_read"
    /\ LET p == call[c].process
       IN /\ ~Alive(p) /\ HasLine(p)
          /\ procs' = Consumed(Poll(procs, p), p)
    /\ Return(c, Error(c, "UnicodeDecodeError"))
    /\ UNCHANGED sessions

(* ----------------------------- shell_view ------------------------------ *)
\* shell_view creating the session it does not find, as shell_exec does.
ViewBeginCreates(c, id) ==
    /\ pc[c] = "idle"
    /\ id \notin DOMAIN sessions
    /\ sessions' = sessions @@ (id :> ShellSession)
    /\ Return(c, Res("view", id, "not_found"))
    /\ UNCHANGED procs

\* Lines 230-239 and 246: unknown id, or no process, or an ended process:
\* return at once; a running process: enter the drain loop.
ViewBegin(c, id) ==
    /\ pc[c] = "idle"
    /\ UNCHANGED sessions
    /\ IF id \notin DOMAIN sessions
       THEN /\ Return(c, Res("view", id, "not_found"))
            /\ UNCHANGED procs
       ELSE LET p == sessions[id].process
            IN IF p # 0 /\ Alive(p)
               THEN /\ pc' = [pc EXCEPT ![c] = "view_read"]
                    /\ call' = [call EXCEPT ![c] = [NoCall EXCEPT
                                   !.op = "view", !.id = id, !.process = p]]
                    /\ ret' = NoResult
                    /\ UNCHANGED procs
               ELSE /\ procs' = IF p # 0 THEN Poll(procs, p) ELSE procs
                    /\ Return(c, [Res("view", id, "view") EXCEPT
                                     !.output = sessions[id].output])

\* Lines 240-244: readline() returns a line.
ViewReadLine(c) ==
    /\ pc[c] = "view_read"
    /\ ReadLine(c)

\* Line 241: readline() raises; shell_view has no try: the exception leaves it.
ViewReadBad(c) ==
    /\ pc[c] = "view_read"
    /\ ReadLineRaises(c)
    /\ Return(c, Raised(c, "UnicodeDecodeError"))

\* Lines 242-246: readline() returns "" at end of file: return session.output.
ViewReadEOF(c) ==
    /\ pc[c] = "view_read"
    /\ AtEOF(call[c].process)
    /\ Return(c, [Result(c, "view") EXCEPT !.output = sessions[call[c].id].output])
    /\ UNCHANGED <<sessions, procs>>

(* -------------- shell_wait, shell_write_to_process, shell_kill_process -- *)
\* The checks the three handlers start with (lines 254-264, 292-302, 329-339):
\* unknown id, no process, a process that has ended; otherwise go on to l,
\* the processes becoming P.
Begin(c, op, id, timeout, l, P) ==
    /\ pc[c] = "idle"
    /\ UNCHANGED sessions
    /\ IF id \notin DOMAIN sessions
       THEN /\ Return(c, Res(op, id, "not_found"))
            /\ UNCHANGED procs
       ELSE LET p == sessions[id].process
            IN IF p = 0
               THEN /\ Return(c, Res(op, id, "no_process"))
                    /\ UNCHANGED procs
               ELSE IF ~Alive(p)
               THEN /\ procs' = Poll(procs, p)
                    /\ Return(c, [Res(op, id, "already_completed") EXCEPT
                                     !.code = procs[p].code])
               ELSE /\ pc' = [pc EXCEPT ![c] = l]
                    /\ call' = [call EXCEPT ![c] = [NoCall EXCEPT !.op = op,
                                   !.id = id, !.timeout = timeout, !.process = p]]
                    /\ ret' = NoResult
                    /\ procs' = P

\* Lines 251-275: shell_wait up to process.wait().
WaitBegin(c, id, timeout) == Begin(c, "wait", id, timeout, "wait_block", procs)

\* Lines 270/275-281: process.wait() returns, the process has ended; read()
\* returns what is left in the pipe; the result carries process.returncode.
WaitExit(c) ==
    /\ pc[c] = "wait_block"
    /\ LET p == call[c].process
       IN /\ ~Alive(p)
          /\ procs' = Consumed(Poll(procs, p), p)
          /\ sessions' = AppendOutput(sessions, call[c].id, Tagged(p, Pending(p)))
          /\ Return(c, [Result(c, "completed") EXCEPT !.code = procs[p].code])

\* Lines 278 and 282-283: read() raises on bytes the text decoder rejects.
WaitExitBad(c) ==
    /\ pc[c] = "wait_block"
    /\ LET p == call[c].process
       IN /\ ~Alive(p) /\ HasLine(p)
          /\ procs' = Consumed(Poll(procs, p), p)
    /\ Return(c, Error(c, "UnicodeDecodeError"))
    /\ UNCHANGED sessions

\* shell_wait ending the process it has waited for in vain.
WaitTimeoutKills(c) ==
    /\ pc[c] = "wait_block"
    /\ call[c].timeout /\ Alive(call[c].process)
    /\ procs' = Kill(procs, call[c].process)
    /\ Return(c, Result(c, "still_running"))
    /\ UNCHANGED sessions

\* Lines 271-272: TimeoutExpired, the process still runs after `seconds`.
WaitTimeout(c) ==
    /\ pc[c] = "wait_block"
    /\ call[c].timeout /\ Alive(call[c].process)
    /\ Return(c, Result(c, "still_running"))
    /\ UNCHANGED <<sessions, procs>>

\* Lines 288-302: shell_write_to_process up to the write.
WriteBegin(c, id) == Begin(c, "write", id, FALSE, "write_write", procs)

\* Lines 306-311: stdin.write() and flush() reach a running process; then
\* time.sleep(0.5) and on to the drain loop.
WriteWrite(c) ==
    /\ pc[c] = "write_write"
    /\ Alive(call[c].process)
    /\ Goto(c, "write_read")
    /\ UNCHANGED <<sessions, procs, call>>

\* shell_write_to_process with the write before the try.
WriteBrokenRaises(c) ==
    /\ pc[c] = "write_write"
    /\ ~Alive(call[c].process)
    /\ Return(c, Raised(c, "BrokenPipeError"))
    /\ UNCHANGED <<sessions, procs>>

\* Lines 307-308 and 321-322: the process has ended since the poll(): the
\* write raises BrokenPipeError, caught by the handler's except.
WriteBroken(c) ==
    /\ pc[c] = "write_write"
    /\ ~Alive(call[c].process)
    /\ Return(c, Error(c, "BrokenPipeError"))
    /\ UNCHANGED <<sessions, procs>>

\* Lines 314-318: readline() returns a line.
WriteReadLine(c) ==
    /\ pc[c] = "write_read"
    /\ ReadLine(c)

\* Lines 315 and 321-322: readline() raises, caught by the handler's except.
WriteReadBad(c) ==
    /\ pc[c] = "write_read"
    /\ ReadLineRaises(c)
    /\ Return(c, Error(c, "UnicodeDecodeError"))

\* Lines 316-320: readline() returns "" at end of file.
WriteReadEOF(c) ==
    /\ pc[c] = "write_read"
    /\ AtEOF(call[c].process)
    /\ Return(c, Result(c, "written"))
    /\ UNCHANGED <<sessions, procs>>

\* shell_kill_process unbinding the handle of a process it finds ended.
KillBeginForgets(c, id) ==
    IF id \in DOMAIN sessions /\ sessions[id].process # 0
          /\ ~Alive(sessions[id].process)
    THEN /\ pc[c] = "idle"
         /\ procs' = Poll(procs, sessions[id].process)
         /\ sessions' = [sessions EXCEPT ![id].process = 0]
         /\ Return(c, [Res("kill", id, "already_completed") EXCEPT
                          !.code = procs[sessions[id].process].code])
    ELSE Begin(c, "kill", id, FALSE, "kill_grace",
               Terminate(procs, sessions[id].process))

\* Lines 327-345: shell_kill_process up to process.wait(timeout=5), with
\* process.terminate() on the way.
KillBegin(c, id) ==
    Begin(c, "kill", id, FALSE, "kill_grace", Terminate(procs, sessions[id].process))

\* Lines 345 and 351: wait(timeout=5) returns, the process has ended.
KillGraceExit(c) ==
    /\ pc[c] = "kill_grace"
    /\ ~Alive(call[c].process)
    /\ procs' = Poll(procs, call[c].process)
    /\ Return(c, Result(c, "terminated"))
    /\ UNCHANGED sessions

\* shell_kill_process reporting "terminated" when the grace period runs out,
\* without the force-kill.
KillGraceTimeoutNoKill(c) ==
    /\ pc[c] = "kill_grace"
    /\ Alive(call[c].process)
    /\ Return(c, Result(c, "terminated"))
    /\ UNCHANGED <<sessions, procs>>

\* Lines 346-351: TimeoutExpired: process.kill(), then process.wait().
KillGraceTimeout(c) ==
    /\ pc[c] = "kill_grace"
    /\ Alive(call[c].process)
    /\ procs' = Poll(Kill(procs, call[c].process), call[c].process)
    /\ Return(c, Result(c, "terminated"))
    /\ UNCHANGED sessions

(* ------------------------------ Run State ------------------------------ *)
\* Number of steps of a plan the planner or the replanner may return.
MaxPlan == 2
\* The recursion_limit of the run (main.py 11 sets 100), scaled down.
RecursionLimit == 5
\* The worker returns the history tells apart: 0, 1, .., MaxTrips or more.
MaxTrips == 2

\* Step descriptions, message contents, instructions and responses the
\* reasoner may produce; a Response may hold the empty text.
Steps == {"a", "b"}
Msgs == {"m1", "m2"}
Instructions == {"i1", "i2"}
Responses == {"", "r1"}
Plans == UNION {[1..n -> Steps] : n \in 0..MaxPlan}

\* langgraph's END, and model_types.members.
END == "__end__"
members == {"fs_worker", "shell_worker", "browser_worker", "kb_worker", "ask_user"}
Workers == members \ {"ask_user"}

\* The Run State a run starts with: main passes {"input": ...}.  state.py puts
\* each field's reducer and default in a dict inside Annotated; langgraph takes
\* a reducer from Annotated only when the annotation is a callable, so every
\* field is a last-value channel with no default: it holds nothing until a
\* node writes it, and a write replaces what it held.  keys is the set of the
\* fields that hold a value, the keys of the dict a node receives.
State0 ==
    [input |-> "goal", plan |-> <<>>, pastSteps |-> <<>>, response |-> "",
     sources |-> <<>>, messages |-> <<>>, next |-> END, instruction |-> "",
     keys |-> {"input"}]

\* The Run State s after a node has returned the update u: a key of u that is
\* not a field of State is written to no channel.
Update(s, u) ==
    [k \in DOMAIN s |->
        IF k = "keys" THEN s.keys \cup (DOMAIN u \cap DOMAIN s)
        ELSE IF k \in DOMAIN u THEN u[k] ELSE s[k]]

\* "k in state".
Has(s, k) == k \in s.keys

\* An exception leaves the node: the run is aborted, no update is applied.
Aborted ==
    /\ node' = "failed"
    /\ UNCHANGED state

(* ------------------------------ controller ----------------------------- *)
\* __init__.py 16-19 and the edge planner -> supervisor.
plan_step(steps) ==
    /\ node = "planner"
    /\ state' = Update(state, [plan |-> steps])
    /\ node' = "supervisor"
    /\ UNCHANGED manager

\* should_end giving a plan that holds steps the precedence over the response.
should_end_on_empty_plan(s) ==
    IF s.plan = <<>> /\ Has(s, "response") /\ s.response # "" THEN END
    ELSE "supervisor"

\* __init__.py 37-41: `"response" in state and state["response"]`.
should_end(s) ==
    IF Has(s, "response") /\ s.response # "" THEN END ELSE "supervisor"

\* A replanner that restates the goal with what it returns.
replan_step_restates(action) ==
    /\ node = "replanner"
    /\ LET s == IF action.kind = "response"
                THEN Update(state, [response |-> action.response,
                                    input |-> action.response])
                ELSE Update(state, [plan |-> action.steps])
       IN /\ state' = s
          /\ node' = should_end(s)
    /\ UNCHANGED manager

\* __init__.py 21-35 and the conditional edge after it: the replanner's
\* RePlanAct holds a Response or a Plan.
replan_step(action) ==
    /\ node = "replanner"
    /\ IF ~({"input", "plan", "pastSteps"} \subseteq state.keys)
       THEN Aborted
       ELSE LET s == IF action.kind = "response"
                     THEN Update(state, [response |-> action.response])
                     ELSE Update(state, [plan |-> action.steps])
            IN /\ state' = s
               /\ node' = should_end(s)
    /\ UNCHANGED manager

(* ------------------------------ supervisor ----------------------------- *)
\* supervisor.py 12-36: the Dispatcher.  state["plan"][0] raises on an empty
\* plan, state["messages"][-1] on a transcript that is missing or empty.
\* FINISH ends the sub-workflow, whose node in the controller has the edge
\* to the replanner; any other choice goes to that member.
supervisor(goto, instruction) ==
    /\ node = "supervisor"
    /\ IF ~Has(state, "plan") \/ state.plan = <<>>
       THEN Aborted
       ELSE LET task == state.plan[1]
            IN IF goto = "FINISH"
               THEN IF ~Has(state, "messages") \/ state.messages = <<>>
                    THEN Aborted
                    ELSE /\ state' = Update(state,
                                [plan |-> Tail(state.plan),
                                 pastSteps |-> <<[step |-> task,
                                     result |-> state.messages[Len(state.messages)]]>>])
                         /\ node' = "replanner"
               ELSE /\ state' = Update(state,
                                [next |-> goto, instruction |-> instruction])
                    /\ node' = goto
    /\ UNCHANGED manager

\* A worker that takes the head of the plan for done.
worker_pops(w, msgs) ==
    /\ node = w
    /\ state' = Update(state, [messages |-> msgs, plan |-> Tail(state.plan)])
    /\ node' = "supervisor"
    /\ UNCHANGED manager

\* workers/browser.py 10-18, workers/fs.py 53-139: a worker returns an update
\* of messages, one message or none; supervisor.py 57-58: the edge back to the
\* supervisor.
worker(w, msgs) ==
    /\ node = w
    /\ state' = Update(state, [messages |-> msgs])
    /\ node' = "supervisor"
    /\ UNCHANGED manager

\* supervisor.py 39: interrupt("human_input") suspends the run.
ask_user ==
    /\ node = "ask_user"
    /\ node' = "interrupted"
    /\ UNCHANGED <<state, manager>>

\* supervisor.py 39-47 and 57-58: the run is resumed with the human's text.
ask_user_resumed(text) ==
    /\ node = "interrupted"
    /\ state' = Update(state, [messages |-> <<text>>])
    /\ node' = "supervisor"
    /\ UNCHANGED manager

\* A node whose reasoner call raises after a part of its update was written.
invoke_raises_half_done ==
    /\ node \in {"planner", "supervisor", "replanner"} \cup Workers
    /\ node' = "failed"
    /\ state' = Update(state, [next |-> node])
    /\ UNCHANGED manager

\* The reasoner call of a node raises (main.py 18-23 reports it).
invoke_raises ==
    /\ node \in {"planner", "supervisor", "replanner"} \cup Workers
    /\ Aborted
    /\ UNCHANGED manager

(* --------------------------- specification ----------------------------- *)
Init ==
    /\ sessions = <<>>
    /\ procs = <<>>
    /\ pc = [c \in Callers |-> "idle"]
    /\ call = [c \in Callers |-> NoCall]
    /\ ret = NoResult
    /\ state = State0
    /\ node = "planner"
    /\ loop = [workflow |-> 0, sub_workflow |-> 0, worker |-> 0]
    /\ trips = 0

Next ==
    \/ \E c \in ServerThreads, id \in Ids, ok \in BOOLEAN : ExecBegin(c, id, ok)
          /\ UNCHANGED run
    \/ \E c \in ServerThreads : ExecGraceExit(c)
          /\ UNCHANGED run
    \/ \E c \in ServerThreads : ExecGraceTimeout(c)
          /\ UNCHANGED run
    \/ \E c \in ServerThreads : ExecLaunch(c)
          /\ UNCHANGED run
    \/ \E c \in ServerThreads : ExecReadLine(c)
          /\ UNCHANGED run
    \/ \E c \in ServerThreads : ExecReadBad(c)
          /\ UNCHANGED run
    \/ \E c \in ServerThreads : ExecReadEOF(c)
          /\ UNCHANGED run
    \/ \E c \in ServerThreads : ExecReadRest(c)
          /\ UNCHANGED run
    \/ \E c \in ServerThreads : ExecReadRestBad(c)
          /\ UNCHANGED run
    \/ \E c \in ServerThreads, id \in Ids : ViewBegin(c, id)
          /\ UNCHANGED run
    \/ \E c \in ServerThreads : ViewReadLine(c)
          /\ UNCHANGED run
    \/ \E c \in ServerThreads : ViewReadBad(c)
          /\ UNCHANGED run
    \/ \E c \in ServerThreads : ViewReadEOF(c)
          /\ UNCHANGED run
    \/ \E c \in ServerThreads, id \in Ids, t \in BOOLEAN : WaitBegin(c, id, t)
          /\ UNCHANGED run
    \/ \E c \in ServerThreads : WaitExit(c)
          /\ UNCHANGED run
    \/ \E c \in ServerThreads : WaitExitBad(c)
          /\ UNCHANGED run
    \/ \E c \in ServerThreads : WaitTimeout(c)
          /\ UNCHANGED run
    \/ \E c \in ServerThreads, id \in Ids : WriteBegin(c, id)
          /\ UNCHANGED run
    \/ \E c \in ServerThreads : WriteWrite(c)
          /\ UNCHANGED run
    \/ \E c \in ServerThreads : WriteBroken(c)
          /\ UNCHANGED run
    \/ \E c \in ServerThreads : WriteReadLine(c)
          /\ UNCHANGED run
    \/ \E c \in ServerThreads : WriteReadBad(c)
          /\ UNCHANGED run
    \/ \E c \in ServerThreads : WriteReadEOF(c)
          /\ UNCHANGED run
    \/ \E c \in ServerThreads, id \in Ids : KillBegin(c, id)
          /\ UNCHANGED run
    \/ \E c \in ServerThreads : KillGraceExit(c)
          /\ UNCHANGED run
    \/ \E c \in ServerThreads : KillGraceTimeout(c)
          /\ UNCHANGED run
    \/ \E p \in Pids : ProcWrite(p)
          /\ UNCHANGED run
    \/ \E p \in Pids : ProcCloseStdout(p)
          /\ UNCHANGED run
    \/ \E p \in Pids, code \in ExitCodes : ProcExit(p, code)
          /\ UNCHANGED run
    \/ \E p \in Pids : ProcTerminated(p)
          /\ UNCHANGED run

Spec == Init /\ [][Next]_vars

\* What the replanner's reasoner may return.
Actions ==
    [kind : {"response"}, response : Responses, steps : {<<>>}]
        \cup [kind : {"plan"}, response : {""}, steps : Plans]

\* The nodes of the supervisor's sub-workflow, and those of the workflow.
SubNodes == {"supervisor"} \cup members
Nodes == {"planner", "replanner"} \cup SubNodes

\* The graph's loop may take one more superstep to run the node that is next:
\* main.py 11 gives recursion_limit, which every loop of the run applies to
\* its own count of supersteps.  The sub-workflow as a whole is the superstep
\* "supervisor" of the workflow, taken when the sub-workflow starts.
CanStep ==
    IF node \in SubNodes
    THEN /\ loop.sub_workflow < RecursionLimit
         /\ loop.sub_workflow = 0 => loop.workflow < RecursionLimit
    ELSE loop.workflow < RecursionLimit

\* The superstep that runs the node: the loops count it; a run that is resumed
\* is a new invocation, whose loops count from the resumed node.
Tick ==
    IF node = "interrupted"
    THEN loop' = [workflow |-> 1, sub_workflow |-> 1, worker |-> 0]
    ELSE /\ CanStep
         /\ loop' = IF node \in SubNodes
                    THEN [workflow |-> loop.workflow
                                         + (IF loop.sub_workflow = 0 THEN 1 ELSE 0),
                          sub_workflow |-> loop.sub_workflow + 1,
                          worker |-> 0]
                    ELSE [workflow |-> loop.workflow + 1, sub_workflow |-> 0,
                          worker |-> 0]

\* The history of the step: the worker returns are counted, up to MaxTrips,
\* from the last change of the plan.
Track ==
    trips' = IF state'.plan # state.plan THEN 0
             ELSE IF node \in members \cup {"interrupted"} /\ node' = "supervisor"
             THEN (IF trips < MaxTrips THEN trips + 1 ELSE trips)
             ELSE trips

Superstep == Tick /\ Track

\* A loop that gives up and starts the run again when it meets its limit.
recursion_restart ==
    /\ node \in Nodes /\ ~CanStep
    /\ node' = "planner"
    /\ state' = State0
    /\ loop' = [workflow |-> 0, sub_workflow |-> 0, worker |-> 0]
    /\ trips' = 0
    /\ UNCHANGED manager

\* GraphRecursionError: the loop has taken recursion_limit supersteps and a
\* node is still to run; main.py 21-23 reports the exception and returns.
recursion_error ==
    /\ node \in Nodes /\ ~CanStep
    /\ Aborted
    /\ UNCHANGED <<loop, trips, manager>>

NextRun ==
    \/ \E steps \in Plans : plan_step(steps) /\ Superstep
    \/ \E goto \in members \cup {"FINISH"}, i \in Instructions :
          supervisor(goto, i) /\ Superstep
    \/ \E w \in Workers, msgs \in {<<>>} \cup {<<m>> : m \in Msgs} :
          worker(w, msgs) /\ Superstep
    \/ ask_user /\ Superstep
    \/ \E text \in Msgs : ask_user_resumed(text) /\ Superstep
    \/ \E action \in Actions : replan_step(action) /\ Superstep
    \/ invoke_raises /\ Superstep
    \/ recursion_error

SpecRun == Init /\ [][NextRun]_vars

\* The runs in which every step of the plan is resolved by one worker call
\* followed by FINISH and the replanner returns the plan as it finds it, or
\* the response once the plan is empty.
NextRoundTrip ==
    \/ \E steps \in Plans \ {<<>>} : plan_step(steps) /\ Superstep
    \/ \E w \in Workers, i \in Instructions :
          trips = 0 /\ supervisor(w, i) /\ Superstep
    \/ \E w \in Workers, m \in Msgs : worker(w, <<m>>) /\ Superstep
    \/ \E i \in Instructions : trips = 1 /\ supervisor("FINISH", i) /\ Superstep
    \/ \E action \in Actions :
          /\ IF state.plan = <<>>
             THEN action.kind = "response" /\ action.response # ""
             ELSE action.kind = "plan" /\ action.steps = state.plan
          /\ replan_step(action) /\ Superstep

SpecRoundTrip == Init /\ [][NextRoundTrip]_vars

(* ------------------------ a pipe that fills up ------------------------- *)
\* Popen(stdout=PIPE, stderr=STDOUT) at tools.py 195-204 gives the command an
\* operating-system pipe, which holds a bounded amount of unread output; a
\* write to a full pipe blocks the command until a reader takes some of it.
\* PipeCapacity counts the lines the pipe holds, Burst the lines the command
\* writes before it exits: a command that exits once its output is read.
PipeCapacity == 1
Burst == 3

\* The command has written what the pipe holds and has more to write.
WriteBlocked(p) ==
    /\ Alive(p) /\ ~procs[p].eof
    /\ procs[p].wrote < Burst
    /\ procs[p].wrote - procs[p].rd >= PipeCapacity

\* The command writes its next line to a pipe that has room for it.
PipeWrite(p) ==
    /\ Alive(p) /\ ~procs[p].eof
    /\ procs[p].wrote < Burst
    /\ ~WriteBlocked(p)
    /\ procs' = [procs EXCEPT ![p].wrote = @ + 1]
    /\ ret' = NoResult
    /\ UNCHANGED <<sessions, pc, call>>

\* The command has written all its output and exits.
PipeExit(p) ==
    /\ Alive(p) /\ procs[p].wrote = Burst
    /\ procs' = Ended(procs, p, 0)
    /\ ret' = NoResult
    /\ UNCHANGED <<sessions, pc, call>>

NextPipe ==
    \/ \E c \in ServerThreads, id \in Ids, ok \in BOOLEAN : ExecBegin(c, id, ok)
          /\ UNCHANGED run
    \/ \E c \in ServerThreads : ExecGraceExit(c)
          /\ UNCHANGED run
    \/ \E c \in ServerThreads : ExecGraceTimeout(c)
          /\ UNCHANGED run
    \/ \E c \in ServerThreads : ExecLaunch(c)
          /\ UNCHANGED run
    \/ \E c \in ServerThreads : ExecReadLine(c)
          /\ UNCHANGED run
    \/ \E c \in ServerThreads : ExecReadBad(c)
          /\ UNCHANGED run
    \/ \E c \in ServerThreads : ExecReadRest(c)
          /\ UNCHANGED run
    \/ \E c \in ServerThreads : ExecReadRestBad(c)
          /\ UNCHANGED run
    \/ \E c \in ServerThreads, id \in Ids, t \in BOOLEAN : WaitBegin(c, id, t)
          /\ UNCHANGED run
    \/ \E c \in ServerThreads : WaitExit(c)
          /\ UNCHANGED run
    \/ \E c \in ServerThreads : WaitExitBad(c)
          /\ UNCHANGED run
    \/ \E c \in ServerThreads : WaitTimeout(c)
          /\ UNCHANGED run
    \/ \E p \in Pids : PipeWrite(p)
          /\ UNCHANGED run
    \/ \E p \in Pids : PipeExit(p)
          /\ UNCHANGED run
    \/ \E p \in Pids : ProcTerminated(p)
          /\ UNCHANGED run

SpecPipe == Init /\ [][NextPipe]_vars

(* ------------------------- filesystem worker --------------------------- *)
\* The filesystem worker (src/src/workers/fs.py) is a graph over the Run
\* State with the nodes agent, tools and write_file_content.  The sub-workflow
\* runs it as its node fs_worker; its first superstep runs agent.
MaxCalls == 2

\* Messages of the transcript: what the nodes of the workers read of them.
HumanMessage(content) ==
    [type |-> "human", name |-> "", content |-> content, tool_calls |-> <<>>]
AIMessage(content, tool_calls) ==
    [type |-> "ai", name |-> "", content |-> content, tool_calls |-> tool_calls]
ToolMessage(name, content) ==
    [type |-> "tool", name |-> name, content |-> content, tool_calls |-> <<>>]

\* src/src/tools.py 10: the names of fs_toolkit.
fs_tools ==
    {"file_read", "file_read_image", "file_write", "file_str_replace",
     "file_find_in_content", "file_find_by_name"}

\* A tool invocation of a reasoner turn: the tool's name and, of its
\* arguments, the content to write.  The reasoner can name a tool that the
\* toolkit does not have.
ToolCalls ==
    {[name |-> n, content |-> ""] : n \in fs_tools \cup {"shell_exec"}}
        \cup {[name |-> "file_write", content |-> "text"]}
Turns == UNION {[1..k -> ToolCalls] : k \in 1..MaxCalls}

\* What the reasoner can answer: a final message, or a turn of invocations.
AIResponses ==
    {AIMessage("done", <<>>)} \cup {AIMessage("", calls) : calls \in Turns}

\* src/src/manusmcp/tools.py 431-476: file_write returns one of two texts,
\* whatever the content it was given; neither is empty.
file_write == {"File written successfully", "Error writing file"}

\* ToolNode: one tool message per invocation, in the order of the
\* invocations, named after the tool and carrying what the tool returned.
ToolOutputs(tool_call) ==
    IF tool_call.name = "file_write"
    THEN {ToolMessage("file_write", c) : c \in file_write}
    ELSE {ToolMessage(tool_call.name, "out")}
ToolNode(calls) ==
    {r \in [1..Len(calls) -> UNION {ToolOutputs(calls[k]) : k \in 1..Len(calls)}] :
        \A k \in 1..Len(calls) : r[k] \in ToolOutputs(calls[k])}

\* state.get("messages", []).
Transcript(s) == IF Has(s, "messages") THEN s.messages ELSE <<>>

\* The last message of a transcript, messages[-1].
Latest(s) == Transcript(s)[Len(Transcript(s))]

\* fs.py 24-33.
should_continue_on_any_message(s) ==
    IF Transcript(s) = <<>> THEN END ELSE "tools"

should_continue(s) ==
    IF Transcript(s) = <<>> THEN END
    ELSE IF Transcript(s)[Len(Transcript(s))].tool_calls # <<>> THEN "tools"
    ELSE END

\* What the first reasoner call of a worker is given.  fs.py 37-39: the
\* transcript of the Run State.  browser.py 12: the instruction, as a human
\* message.
ReasonerInput(w, s) ==
    IF w = "fs_worker" THEN Transcript(s)
    ELSE <<HumanMessage(s.instruction)>>

\* fs.py 36-40 with the edges of 147-150: the reasoner answers the
\* transcript, its message is written to messages, and should_continue
\* chooses tools or the end of the worker, after which the sub-workflow runs
\* the supervisor.
call_model(response) ==
    /\ node \in {"fs_worker", "agent"}
    /\ state' = Update(state, [messages |-> <<response>>])
    /\ node' = IF should_continue(state') = "tools" THEN "tools" ELSE "supervisor"
    /\ UNCHANGED <<loop, trips, manager>>

\* fs.py 43-104: the tool node runs the invocations of the last message; the
\* loop over the tool messages returns in its first iteration, in every
\* branch, with that one message as the update.  A Command for the parent
\* graph leaves the worker for the supervisor.
call_file_tool_node(tool_messages) ==
    /\ node = "tools"
    /\ Transcript(state) # <<>>
    /\ tool_messages \in ToolNode(Transcript(state)[Len(Transcript(state))].tool_calls)
    /\ IF tool_messages = <<>>
       THEN /\ state' = Update(state, [messages |-> <<>>])
            /\ node' = "agent"
       ELSE LET tool_message == tool_messages[1]
            IN  /\ state' = Update(state, [messages |-> <<tool_message>>])
                /\ node' =
                      IF tool_message.name \in {"file_read", "file_read_image"}
                          THEN "supervisor"
                      ELSE IF tool_message.name = "file_write"
                              /\ tool_message.content = ""
                          THEN "write_file_content"
                      ELSE IF tool_message.name \in fs_tools THEN "agent"
                      ELSE "supervisor"
    /\ UNCHANGED <<loop, trips, manager>>

\* A node of the worker raises and the run is aborted: the reasoner or a
\* tool fails, or a node awaits the plain value that invoke() returned
\* (fs.py 39, 48).
fs_raises ==
    /\ node \in {"fs_worker", "agent", "tools"}
    /\ Aborted
    /\ UNCHANGED <<loop, trips, manager>>

\* The Run States the supervisor hands to the worker: a plan with a first
\* step, the instruction it wrote, and the transcript as the node before
\* left it (none yet, a worker's last message, the user's answer).
Handed ==
    {<<>>, <<AIMessage("done", <<>>)>>, <<ToolMessage("file_read", "out")>>,
     <<HumanMessage("text")>>}

InitWorker(w) ==
    /\ sessions = <<>>
    /\ procs = <<>>
    /\ pc = [c \in Callers |-> "idle"]
    /\ call = [c \in Callers |-> NoCall]
    /\ ret = NoResult
    /\ \E steps \in Plans \ {<<>>}, i \in Instructions, msgs \in Handed :
          state = Update(State0,
                    IF msgs = <<>>
                    THEN [plan |-> steps, next |-> w, instruction |-> i]
                    ELSE [plan |-> steps, next |-> w, instruction |-> i,
                          messages |-> msgs])
    /\ node = w
    /\ loop = [workflow |-> 0, sub_workflow |-> 0, worker |-> 0]
    /\ trips = 0

InitFs == InitWorker("fs_worker")

NextFs ==
    \/ \E response \in AIResponses : call_model(response)
    \/ \E tool_messages \in UNION {ToolNode(calls) : calls \in Turns} :
          call_file_tool_node(tool_messages)
    \/ fs_raises

SpecFs == InitFs /\ [][NextFs]_vars

(* ----------------------- knowledge-base worker ------------------------- *)
\* The knowledge-base worker (src/src/workers/kb.py) is a graph over the Run
\* State with the nodes retrieve, grade, rewrite and generate.  The
\* sub-workflow runs it as its node kb_worker; its first superstep runs
\* retrieve.

\* What a retrieval can find: nothing, or documents with their sources.
Retrievals ==
    {[content |-> "", sources |-> <<>>], [content |-> "docs", sources |-> <<"s1">>]}

\* kb.py 121, 144: the content of the first human message, "" for none.
original_query(s) ==
    IF \E k \in 1..Len(Transcript(s)) : Transcript(s)[k].type = "human"
    THEN Transcript(s)[CHOOSE k \in 1..Len(Transcript(s)) :
                          /\ Transcript(s)[k].type = "human"
                          /\ \A j \in 1..(k - 1) : Transcript(s)[j].type # "human"].content
    ELSE ""

\* kb.py 124: the content of the last tool message, "" for none.
retrieved_docs(s) ==
    IF \E k \in 1..Len(Transcript(s)) : Transcript(s)[k].type = "tool"
    THEN Transcript(s)[CHOOSE k \in 1..Len(Transcript(s)) :
                          /\ Transcript(s)[k].type = "tool"
                          /\ \A j \in (k + 1)..Len(Transcript(s)) :
                                Transcript(s)[j].type # "tool"].content
    ELSE ""

\* kb.py 207-211: relevance is not a field of State (state.py 10-42), so the
\* state the edge reads never holds it.
determine_next_node(s) ==
    IF Has(s, "relevance") /\ s.relevance = "yes" THEN "generate" ELSE "rewrite"

\* kb.py 75-114 with the edge of 221.
retrieve_information(docs) ==
    /\ node \in {"kb_worker", "retrieve"}
    /\ state' = Update(state,
                  [messages |-> <<ToolMessage("retrieve_information", docs.content)>>,
                   sources |-> docs.sources])
    /\ node' = "grade"
    /\ UNCHANGED <<trips, manager>>

\* kb.py 117-137 with the edges of 222-229: without a query or without
\* documents the answer is "no" and the reasoner is not asked; otherwise the
\* answer is the reasoner's.  The update is {"relevance": answer}.  (With
\* messages a last-value channel the transcript grade reads is the tool
\* message of retrieve alone.)
grade_documents(relevance) ==
    /\ node = "grade"
    /\ original_query(state) = "" \/ retrieved_docs(state) = "" => relevance = "no"
    /\ state' = Update(state, [relevance |-> relevance])
    /\ node' = determine_next_node(state')
    /\ UNCHANGED <<trips, manager>>

\* kb.py 140-161 with the edge of 230: without a query the update is empty.
rewrite_query(rewritten) ==
    /\ node = "rewrite"
    /\ state' = IF original_query(state) = "" THEN Update(state, << >>)
                ELSE Update(state, [rewrittenQuery |-> rewritten,
                                    messages |-> <<AIMessage(rewritten, <<>>)>>])
    /\ node' = "retrieve"
    /\ UNCHANGED <<trips, manager>>

\* A node of the worker raises and the run is aborted: the retriever or the
\* reasoner fails, a node awaits the plain value that a call returned
\* (kb.py 88, 130, 150), or asks a message for its _getType (kb.py 121).
kb_raises ==
    /\ node \in {"kb_worker", "retrieve", "grade", "rewrite"}
    /\ Aborted
    /\ UNCHANGED <<loop, trips, manager>>

InitKb == InitWorker("kb_worker")

\* kb.py 80-82: what retrieve asks the retriever for.
query(s) ==
    IF Has(s, "rewrittenQuery") THEN s.rewrittenQuery
    ELSE IF Transcript(s) # <<>> THEN Latest(s).content
    ELSE ""

\* A superstep of the worker's own loop, which applies the recursion_limit
\* of the run to its own count.
KbNodes == {"kb_worker", "retrieve", "grade", "rewrite"}
KbCanStep == loop.worker < RecursionLimit
KbSuperstep ==
    /\ KbCanStep
    /\ loop' = [loop EXCEPT !.worker = loop.worker + 1]

\* GraphRecursionError in the worker's loop: the run is aborted.
kb_recursion_error ==
    /\ node \in KbNodes /\ ~KbCanStep
    /\ Aborted
    /\ UNCHANGED <<loop, trips, manager>>

\* generate (kb.py 164-204) has no transition here: no step of grade leads
\* to it.
NextKb ==
    \/ \E docs \in Retrievals : retrieve_information(docs) /\ KbSuperstep
    \/ \E relevance \in {"yes", "no"} : grade_documents(relevance) /\ KbSuperstep
    \/ \E rewritten \in Msgs : rewrite_query(rewritten) /\ KbSuperstep
    \/ kb_raises
    \/ kb_recursion_error

SpecKb == InitKb /\ [][NextKb]_vars

(* ------------------------------ claims --------------------------------- *)
\* The running processes that were launched for session id.
Live(id) == {p \in Pids : procs[p].sid = id /\ Alive(p)}

\* The step a handler at a drain loop can take by itself: it has none while
\* its readline() waits for the process.
ExecReadStep(c) ==
    ExecReadLine(c) \/ ExecReadBad(c) \/ ExecReadEOF(c) \/ ExecReadRest(c)
        \/ ExecReadRestBad(c)
ViewReadStep(c) == ViewReadLine(c) \/ ViewReadBad(c) \/ ViewReadEOF(c)
WriteStep(c) ==
    WriteWrite(c) \/ WriteBroken(c) \/ WriteReadLine(c) \/ WriteReadBad(c)
        \/ WriteReadEOF(c)

\* C1: a process launched by an earlier exec on a session id has ended once a
\* later exec on that id has launched its process, so that at most one
\* process per session id runs at any time.
C1_OneLiveProcessPerSession ==
    /\ \A p, q \in Pids :
          p < q /\ procs[p].sid = procs[q].sid => ~Alive(p)
    /\ \A id \in Ids : Cardinality(Live(id)) <= 1

\* C1 witness: a session whose second process runs, in the exec that
\* launched it, after the first has ended.
C1_Witness ==
    \E c \in Callers, p \in Pids :
        /\ pc[c] = "exec_read" /\ Alive(call[c].process)
        /\ p < call[c].process /\ procs[p].sid = call[c].id

\* C2: exec returns without waiting for the process: a handler in exec's
\* read loop can always take its next step by itself, also when the process
\* runs on and has written nothing (more).
C2_ExecReturnsWithoutWaiting ==
    \A c \in Callers : pc[c] = "exec_read" => ENABLED ExecReadStep(c)

\* C3: exec replaces a running process in this order: the terminate signal
\* before the grace wait, the force-kill only to a process that was sent the
\* terminate signal and still runs in a handler's grace wait, the launch only
\* once the old process has ended; no other process of the session runs when
\* exec returns.
C3_StateOrder ==
    /\ \A c \in Callers :
          /\ pc[c] = "exec_grace" =>
                LET old == sessions[call[c].id].process
                IN old # 0 /\ (procs[old].term \/ ~Alive(old))
          /\ pc[c] = "exec_launch" => Live(call[c].id) = {}
          /\ pc[c] = "exec_read" => Live(call[c].id) \subseteq {call[c].process}
    /\ ret.op = "exec" => Live(ret.id) \subseteq {sessions[ret.id].process}
C3_ForceKillStep ==
    \A p \in Pids :
        Alive(p) /\ ~procs'[p].alive /\ procs'[p].code = KillCode
            => /\ procs[p].term
               /\ \E c \in Callers : pc[c] \in {"exec_grace", "kill_grace"}
C3_TerminateGraceKillLaunch == [][C3_ForceKillStep]_vars /\ []C3_StateOrder

\* C3 witness: exec is about to launch after the grace period ran out and it
\* force-killed the session's process (ended by SIGKILL, not collected).
C3_Witness ==
    \E c \in Callers :
        /\ pc[c] = "exec_launch"
        /\ sessions[call[c].id].process # 0
        /\ procs[sessions[call[c].id].process].code = KillCode
        /\ procs[sessions[call[c].id].process].returncode = {}

\* C4: an exec whose launch fails returns an error result, no exception
\* leaves exec, and the session has no running process afterwards.
C4_LaunchFailureIsAnErrorResult ==
    /\ ret.op = "exec" => ret.kind \in {"started", "error"}
    /\ ret.op = "exec" /\ ret.error = "FileNotFoundError" =>
          ret.kind = "error" /\ Live(ret.id) = {}

\* C4 witness: the launch failed in an exec that had force-killed the
\* session's running process.
C4_Witness ==
    /\ ret.op = "exec" /\ ret.error = "FileNotFoundError"
    /\ sessions[ret.id].process # 0
    /\ procs[sessions[ret.id].process].code = KillCode
    /\ procs[sessions[ret.id].process].returncode = {}

\* C5: whenever view returns, it returns not-found for an unknown id, and for
\* a known one the session's buffer with every line the pipe of the session's
\* process held at the call.
C5_ViewReturnsAllAvailableOutput ==
    ret.op = "view" /\ ret.kind # "raised" =>
        IF ret.id \notin DOMAIN sessions
        THEN ret.kind = "not_found"
        ELSE /\ ret.kind = "view"
             /\ ret.output = sessions[ret.id].output
             /\ sessions[ret.id].process # 0 => ~HasLine(sessions[ret.id].process)

\* C6: view and writeInput never wait for the process: a handler inside
\* either can always take its next step by itself.
C6_ViewAndWriteNeverBlock ==
    \A c \in Callers :
        /\ pc[c] = "view_read" => ENABLED ViewReadStep(c)
        /\ pc[c] \in {"write_write", "write_read"} => ENABLED WriteStep(c)

\* C7: a wait that times out returns "still running" and changes neither the
\* process, which runs on with no signal sent, nor the session; a wait that
\* reports completion reports the status the process ended with.
C7_StillRunningState ==
    /\ ret.op = "wait" /\ ret.kind = "still_running" =>
          /\ sessions[ret.id].process # 0
          /\ Alive(sessions[ret.id].process)
          /\ ~procs[sessions[ret.id].process].term
    /\ ret.op = "wait" /\ ret.kind \in {"completed", "already_completed"} =>
          /\ ~Alive(sessions[ret.id].process)
          /\ ret.code = procs[sessions[ret.id].process].code
C7_StillRunningStep ==
    ret'.op = "wait" /\ ret'.kind = "still_running" =>
        UNCHANGED <<sessions, procs>>
C7_WaitTimeoutLeavesProcess == [][C7_StillRunningStep]_vars /\ []C7_StillRunningState

\* C7 witness: a wait with a timeout has just returned "still running".
C7_Witness ==
    /\ ret.op = "wait" /\ ret.kind = "still_running"
    /\ Alive(sessions[ret.id].process)

\* C8: whenever wait reports completion, nothing the process wrote is left
\* unread in its pipe and the reported code is the status the process ended
\* with, also when the process had ended before the call.
C8_WaitCompletionHasAllOutput ==
    ret.op = "wait" /\ ret.kind \in {"completed", "already_completed"} =>
        /\ ~HasLine(sessions[ret.id].process)
        /\ ret.code = procs[sessions[ret.id].process].code

\* C9: writeInput writes to the input stream of a running process only; for
\* a process that has ended, also one that ends between the poll() and the
\* write, it returns a result, and no exception leaves it.
C9_WriteState ==
    /\ ret.op = "write" =>
          ret.kind \in {"not_found", "no_process", "already_completed",
                        "error", "written"}
    /\ ret.op = "write" /\ ret.kind = "already_completed" =>
          ~Alive(sessions[ret.id].process)
    /\ ret.op = "write" /\ ret.error = "BrokenPipeError" =>
          ret.kind = "error" /\ ~Alive(sessions[ret.id].process)
C9_WriteStep ==
    \A c \in Callers :
        pc[c] = "write_write" /\ pc'[c] = "write_read" => Alive(call[c].process)
C9_WriteOnlyToLiveProcess == [][C9_WriteStep]_vars /\ []C9_WriteState

\* C9 witness: the process ended between the poll() and the write, and
\* writeInput returned the error.
C9_Witness == ret.op = "write" /\ ret.error = "BrokenPipeError"

\* C10: kill on a session whose process has ended returns already-completed
\* with the status the process ended with, sends no signal and changes
\* neither the session's handle nor its buffer; the status of the session's
\* ended process never changes, so that every repetition returns the same.
C10_KillStep ==
    ret'.op = "kill" /\ ret'.kind = "already_completed" =>
        LET p == sessions[ret'.id].process
        IN /\ sessions' = sessions
           /\ p # 0 /\ ~Alive(p)
           /\ ret'.code = procs[p].code
           /\ procs' = [procs EXCEPT ![p].returncode = {procs[p].code}]
C10_StatusStable ==
    \A id \in DOMAIN sessions :
        LET p == sessions[id].process
        IN p # 0 /\ ~Alive(p) /\ sessions'[id].process = p =>
              ~procs'[p].alive /\ procs'[p].code = procs[p].code
C10_KillIdempotentOnExited == [][C10_KillStep /\ C10_StatusStable]_vars

\* C10 witness: kill has just returned already-completed, for a process that
\* had ended with status 1 and whose status an earlier call had collected.
C10_Witness ==
    /\ ret.op = "kill" /\ ret.kind = "already_completed" /\ ret.code = 1
    /\ procs[sessions[ret.id].process].returncode = {1}

\* The positions at which a handler waits for its process.
Waiting == {"exec_grace", "exec_read", "view_read", "wait_block", "write_read",
            "kill_grace"}

\* C11: a kill that finds the process running always comes to its return, and
\* when it returns "terminated" the process has ended, by the terminate
\* signal, by itself, or by the force-kill, and its status is collected.
C11_KilledProcessIsNotAlive ==
    /\ \A c \in Callers :
          pc[c] = "kill_grace" => ENABLED (KillGraceExit(c) \/ KillGraceTimeout(c))
    /\ ret.op = "kill" /\ ret.kind = "terminated" =>
          LET p == sessions[ret.id].process
          IN /\ p # 0 /\ ~Alive(p)
             /\ procs[p].returncode = {procs[p].code}

\* C11 witness: kill has returned "terminated" for a process that did not
\* react to the terminate signal within the grace period and was force-killed.
C11_Witness ==
    /\ ret.op = "kill" /\ ret.kind = "terminated"
    /\ procs[sessions[ret.id].process].code = KillCode

\* C12: exec's replace path and kill leave the process they have terminated
\* in the same state: ended, with its exit status collected.
C12_SameTerminationSequence ==
    /\ ret.op = "kill" /\ ret.kind = "terminated" =>
          LET p == sessions[ret.id].process
          IN ~Alive(p) /\ procs[p].returncode = {procs[p].code}
    /\ \A c \in Callers :
          pc[c] = "exec_launch" /\ sessions[call[c].id].process # 0 =>
              LET p == sessions[call[c].id].process
              IN ~Alive(p) /\ procs[p].returncode = {procs[p].code}

C14_DifferentIdsDoNotBlock ==
    \A c \in Callers :
        pc[c] \in Waiting =>
            \A id \in Ids \ {call[c].id} :
                ENABLED (\E d \in ServerThreads : ViewBegin(d, id))

\* C15: no step removes a session id from the table; only exec adds one;
\* view, wait, writeInput and kill return not-found on an unknown id, and only
\* then, and leave the table as it is.
C15_TableStep ==
    /\ DOMAIN sessions \subseteq DOMAIN sessions'
    /\ DOMAIN sessions' # DOMAIN sessions =>
          \E c \in Callers :
              /\ pc[c] = "idle" /\ call'[c].op = "exec"
              /\ DOMAIN sessions' = DOMAIN sessions \cup {call'[c].id}
    /\ ret'.op \in {"view", "wait", "write", "kill"} =>
          /\ ret'.kind = "not_found" <=> ret'.id \notin DOMAIN sessions
          /\ ret'.kind = "not_found" => sessions' = sessions
C15_SessionTableOnlyGrows == [][C15_TableStep]_vars

\* C15 witness: an operation has returned not-found for an id the table does
\* not hold, while the table holds another session.
C15_Witness ==
    /\ ret.op \in {"view", "wait", "write", "kill"} /\ ret.kind = "not_found"
    /\ ret.id \notin DOMAIN sessions /\ DOMAIN sessions # {}

\* The sequence s is a prefix of the sequence t.
IsPrefix(s, t) == Len(s) <= Len(t) /\ SubSeq(t, 1, Len(s)) = s

\* C16: every step leaves each session's buffer a prefix of what it becomes,
\* except the step of exec that goes on from clearing the buffer; that step
\* leaves the buffer empty, whether the launch succeeds or fails.
C16_BufferStep ==
    \A id \in DOMAIN sessions :
        \/ IsPrefix(sessions[id].output, sessions'[id].output)
        \/ \E c \in Callers : pc[c] = "exec_launch" /\ call[c].id = id
C16_ClearStep ==
    \A c \in Callers :
        pc[c] = "exec_launch" /\ pc'[c] # "exec_launch" =>
            sessions'[call[c].id].output = <<>>
C16_BufferAppendOnlyUntilExec == [][C16_BufferStep /\ C16_ClearStep]_vars

\* C16 witness: an exec whose launch is going to fail is about to clear a
\* buffer that holds output of the session's earlier process.
C16_Witness ==
    \E c \in Callers :
        /\ pc[c] = "exec_launch" /\ ~call[c].ok
        /\ sessions[call[c].id].output # <<>>

\* The nodes of the supervisor's sub-workflow, and the run suspended in it.
Delegate == {"supervisor", "interrupted"} \cup members

\* C17: the step in which the Dispatcher chooses FINISH leaves the plan
\* without its head and pastSteps extended by one entry, the head's
\* description with the content of the most recent message.
C17_FinishStep ==
    node = "supervisor" /\ node' = "replanner" =>
        /\ state'.plan = Tail(state.plan)
        /\ state'.pastSteps =
              Append(state.pastSteps,
                     [step |-> state.plan[1],
                      result |-> state.messages[Len(state.messages)]])
C17_FinishPopsAndRecords == [][C17_FinishStep]_vars

\* C18: the step in which the Dispatcher chooses a worker records the choice
\* in next and a text in instruction and leaves plan and pastSteps as they
\* are; the worker's return leads back to the Dispatcher with the same plan;
\* inside the sub-workflow the plan changes only by the FINISH step.
C18_RouteStep ==
    node = "supervisor" /\ node' \in members =>
        /\ {"next", "instruction"} \subseteq state'.keys
        /\ state'.next = node' /\ state'.instruction \in Instructions
        /\ state'.plan = state.plan /\ state'.pastSteps = state.pastSteps
C18_ReturnStep ==
    node \in members \cup {"interrupted"} /\ node' # node /\ node' # "failed" =>
        /\ node' \in {"supervisor", "interrupted"}
        /\ state'.plan = state.plan /\ state'.pastSteps = state.pastSteps
C18_HeadStep ==
    node \in Delegate /\ state'.plan # state.plan =>
        /\ node = "supervisor" /\ node' = "replanner"
        /\ state'.plan = Tail(state.plan)
C18_WorkerRoundTripKeepsHead ==
    [][C18_RouteStep /\ C18_ReturnStep /\ C18_HeadStep]_vars

\* C18 witness: a worker chosen by the Dispatcher has returned a message, and
\* the Dispatcher is to run again on the plan.
C18_Witness ==
    /\ node = "supervisor" /\ state.plan # <<>>
    /\ Has(state, "next") /\ state.next \in Workers
    /\ Has(state, "messages") /\ state.messages # <<>>

\* C19: whenever the replanner is to run, the plan is empty or a response is
\* set.
C19_ReplanOnlyAfterDelegate ==
    node = "replanner" =>
        state.plan = <<>> \/ (Has(state, "response") /\ state.response # "")

\* C20: the step of the replanner leads to the end of the run when a
\* response is present and not empty, whatever the plan holds, and back to
\* the supervisor otherwise.
C20_ReplanStep ==
    node = "replanner" /\ node' # "replanner" /\ node' # "failed" =>
        node' = IF Has(state', "response") /\ state'.response # "" THEN END
                ELSE "supervisor"
C20_ResponseEndsRun == [][C20_ReplanStep]_vars

\* C20 witness: the run has ended with a response while the plan still holds
\* a step.
C20_Witness ==
    /\ node = END /\ state.plan # <<>>
    /\ Has(state, "response") /\ state.response # ""

\* The descriptions of the steps recorded in pastSteps.
Desc(ps) == [k \in 1..Len(ps) |-> ps[k].step]

\* C21: in a run of one worker call and FINISH per step, with a replanner that
\* keeps the plan, the steps recorded in pastSteps followed by the steps left
\* in the plan are, after every transition, the steps of the plan in their
\* order; the run ends with the plan empty, so with all N of them recorded.
C21_RoundTripStep ==
    node # "planner" =>
        Desc(state'.pastSteps) \o state'.plan = Desc(state.pastSteps) \o state.plan
C21_RoundTripEnd == node = END => state.plan = <<>>
C21_RoundTripRecordsAllSteps == [][C21_RoundTripStep]_vars /\ []C21_RoundTripEnd

\* C22: every transition leaves pastSteps a prefix of what it becomes, and the
\* step FINISH removes from the head of the plan is recorded in it.
C22_PastStepsStep ==
    /\ IsPrefix(state.pastSteps, state'.pastSteps)
    /\ node = "supervisor" /\ node' = "replanner" =>
          \E k \in 1..Len(state'.pastSteps) :
              state'.pastSteps[k].step = state.plan[1]
C22_PastStepsOnlyGrows == [][C22_PastStepsStep]_vars

\* C23: input holds the value the run was started with, in every state and
\* across every transition.
C23_InputStep == Has(state', "input") /\ state'.input = state.input
C23_InputIsKept == [][C23_InputStep]_vars /\ [](state.input = State0.input)

\* C23 witness: a run has ended with a response, after the planner, the
\* Dispatcher, a worker and the replanner have run.
C23_Witness ==
    /\ node = END /\ Has(state, "response") /\ state.response # ""
    /\ Has(state, "pastSteps") /\ Has(state, "messages")
    /\ state.input = State0.input

\* C24: no loop takes more supersteps than the recursion limit; every
\* superstep that runs a node is counted, so a run makes a bounded number of
\* transitions; a run that meets the limit with a node still to run is
\* aborted with its Run State as it is; a run that has ended or was aborted
\* takes no further step.
C24_Bounded ==
    loop.workflow <= RecursionLimit /\ loop.sub_workflow <= RecursionLimit
C24_Step ==
    /\ node \in Nodes /\ node' # "failed" =>
          \/ loop'.workflow > loop.workflow
          \/ loop'.workflow = loop.workflow /\ loop'.sub_workflow > loop.sub_workflow
    /\ node \in Nodes /\ ~CanStep => node' = "failed" /\ state' = state
    /\ node \in {"failed", END} => node' = node /\ state' = state
C24_RunIsBounded == [][C24_Step]_vars /\ []C24_Bounded

\* C24 witness: the sub-workflow has taken as many supersteps as the limit
\* allows and a node is still to run.
C24_Witness ==
    /\ node \in SubNodes /\ ~CanStep
    /\ loop.sub_workflow = RecursionLimit

\* C25: after a reasoner turn of the filesystem worker the next state is
\* the tool node when the turn's message holds at least one tool invocation,
\* and the worker ends when it holds none; on an empty transcript the choice
\* is to end.
C25_Step ==
    node \in {"fs_worker", "agent"} /\ node' # "failed" =>
        /\ Transcript(state') # <<>>
        /\ Latest(state').tool_calls # <<>> => node' = "tools"
        /\ Latest(state').tool_calls = <<>> => node' = "supervisor"
C26_Step ==
    node = "tools" /\ node' # "failed" =>
        LET calls == Latest(state).tool_calls
            k == Len(calls)
            t == Transcript(state')
        IN  /\ Len(t) >= k
            /\ \A j \in 1..k :
                  /\ t[Len(t) - k + j].type = "tool"
                  /\ t[Len(t) - k + j].name = calls[j].name
C26_AllToolResultsKept == [][C26_Step]_vars

\* C27: when a worker starts, the first message its reasoner is given is the
\* instruction the Dispatcher stored in the Run State, in the filesystem
\* worker as in the browser worker.
C27_SeededWithInstruction ==
    node = "fs_worker" =>
        \A w \in {"fs_worker", "browser_worker"} :
            /\ ReasonerInput(w, state) # <<>>
            /\ ReasonerInput(w, state)[1] = HumanMessage(state.instruction)

\* C28: a tool node that ran an invocation of file_read or file_read_image
\* is followed by the supervisor, with that tool's result as the message
\* handed over; a tool node that ran only other filesystem tools is followed
\* by the reasoner.
ReadFamily == {"file_read", "file_read_image"}
C28_Step ==
    node = "tools" /\ node' # "failed" =>
        LET calls == Latest(state).tool_calls
            names == {calls[j].name : j \in 1..Len(calls)}
        IN  /\ names \cap ReadFamily # {} =>
                  /\ node' = "supervisor"
                  /\ \E j \in 1..Len(Transcript(state')) :
                        Transcript(state')[j].name \in ReadFamily
            /\ names \subseteq fs_tools \ ReadFamily => node' = "agent"
C28_ReadResultGoesToSupervisor == [][C28_Step]_vars

\* C29: a tool node that ran, first of its turn, a file_write invocation
\* whose content argument is empty is followed by write_file_content.
C29_Step ==
    /\ node = "tools" /\ node' # "failed"
    /\ Latest(state).tool_calls[1] = [name |-> "file_write", content |-> ""]
    => node' = "write_file_content"
C29_EmptyContentIsStaged == [][C29_Step]_vars

\* C30: when the retrieval found documents, the step of Grade can lead to
\* Generate, as it does when Grade answers "yes"; every step of Grade leads
\* to Generate or to Rewrite, and Rewrite is followed by Retrieve.
C30_GradeStep ==
    \E relevance \in {"yes", "no"} :
        grade_documents(relevance) /\ KbSuperstep /\ node' = "generate"
C30_GradeYesGenerates ==
    node = "grade" /\ retrieved_docs(state) # "" => ENABLED C30_GradeStep

\* C31: the worker leaves the Retrieve-Grade-Rewrite loop by itself: it is
\* never stopped by the recursion limit with a node of the loop still to run.
C31_KbLoopEndsByItself == ~(node \in KbNodes /\ ~KbCanStep)

\* C39: with no human message in the transcript, a step of Grade changes
\* nothing of the Run State and is followed by Rewrite, a step of Rewrite
\* changes nothing and is followed by Retrieve, the retrieval of the next
\* round asks for what this one asked for, and Generate is never entered.
C39_Step ==
    /\ node = "grade" /\ original_query(state) = "" /\ node' # "failed" =>
          node' = "rewrite" /\ state' = state
    /\ node = "rewrite" /\ original_query(state) = "" /\ node' # "failed" =>
          node' = "retrieve" /\ state' = state
    /\ /\ node \in {"kb_worker", "retrieve"} /\ node' = "grade"
       /\ original_query(state) = "" /\ original_query(state') = ""
       => query(state') = query(state)
C39_CycleRepeatsUnchanged == [][C39_Step]_vars /\ [](node # "generate")

\* C32: the step of ask_user suspends the run with the Run State as it is;
\* the only step of a suspended run is its resumption, which leaves messages
\* extended by one message, every other field as it was, and the Dispatcher
\* next, so with the same head of the plan.
C32_Step ==
    /\ node = "ask_user" /\ node' # "failed" =>
          node' = "interrupted" /\ state' = state
    /\ node = "interrupted" =>
          /\ node' = "supervisor"
          /\ Has(state', "messages")
          /\ Len(state'.messages) = Len(Transcript(state)) + 1
          /\ IsPrefix(Transcript(state), state'.messages)
          /\ \A k \in DOMAIN state \ {"messages", "keys"} : state'[k] = state[k]
          /\ state'.keys = state.keys \cup {"messages"}
C32_AskUserAppendsInput == [][C32_Step]_vars

\* C33: the step that aborts the run leaves every field of the Run State as
\* it was before the step, and an aborted run takes no further step.
C33_Step ==
    /\ node # "failed" /\ node' = "failed" => state' = state
    /\ node = "failed" => node' = "failed" /\ state' = state
C33_FailingStepWritesNothing == [][C33_Step]_vars

\* C33 witness: a run was aborted by a failing call, not by the recursion
\* limit, after steps that wrote to the Run State.
C33_Witness ==
    /\ node = "failed"
    /\ {"plan", "pastSteps", "messages", "next", "instruction"} \subseteq state.keys
    /\ loop.workflow < RecursionLimit /\ loop.sub_workflow < RecursionLimit

\* C34: in every state in which the Dispatcher is the node to run, the plan
\* holds at least one step.
C34_DispatcherHasAStep ==
    node = "supervisor" => Has(state, "plan") /\ state.plan # <<>>

\* C35: the Dispatcher may choose FINISH whenever it runs on a step of the
\* plan; in every such state the transcript holds a message, the one FINISH
\* records as the step's result.
C35_FinishFindsAMessage ==
    node = "supervisor" /\ Has(state, "plan") /\ state.plan # <<>> =>
        Has(state, "messages") /\ state.messages # <<>>

\* C36: the step in which FINISH records a result for the head of the plan
\* comes after a worker or the user has returned a message for that head:
\* the message recorded was not left by an earlier step.
C36_FinishStep == node = "supervisor" /\ node' = "replanner" => trips > 0
C36_ResultBelongsToStep == [][C36_FinishStep]_vars

\* C38: when exec returns, the session's handle is the process this exec
\* launched, or none when its launch failed: no process of an earlier exec
\* is left for wait, kill or writeInput to report on.
C38_HandleIsOfThisExec ==
    ret.op = "exec" /\ ret.kind \in {"started", "error"} =>
        IF ret.kind = "error" /\ ret.error = "FileNotFoundError"
        THEN sessions[ret.id].process = 0
        ELSE sessions[ret.id].process = Len(procs)

\* C37: a wait without a timeout is never left with nothing that can happen:
\* as long as it has not returned, it can return or the process it waits for
\* can go on, to write or to exit.
C37_WaitCanGoOn ==
    \A c \in Callers :
        pc[c] = "wait_block" /\ ~call[c].timeout =>
            \/ ENABLED WaitExit(c)
            \/ ENABLED PipeWrite(call[c].process)
            \/ ENABLED PipeExit(call[c].process)
            \/ ENABLED ProcTerminated(call[c].process)

====
